---- MODULE Spec2Model ----
(***************************************************************************)
(* Model of backend/src/agent.py: the FreshCart grocery agent's cart,      *)
(* catalog lookup and order ledger (orders.json).                          *)
(*                                                                         *)
(* Representation:                                                         *)
(*  - a Python str is a sequence of code points (77 = "M", 109 = "m"),     *)
(*    so that str.lower() and str.strip() are computed, not assumed;       *)
(*  - money is counted in thousandths of a currency unit (mills), so that  *)
(*    round(total, 2) is a real rounding to a multiple of 10 mills;        *)
(*  - a tool's return string is the sequence of its "|"-separated fields,  *)
(*    the first being the status word;                                     *)
(*  - order_id f"ORD-{seconds}" is the pair <<"ORD-", seconds>>.           *)
(***************************************************************************)
EXTENDS Integers, Sequences, FiniteSets, TLC

VARIABLES
    phase,          \* "boot" (module not yet loaded), "running", "aborted"
    catalog_exists, \* os.path.exists(CATALOG_FILE)
    orders_file,    \* state of orders.json: "missing", "malformed" or "json"
    orders,         \* the list stored in orders.json when orders_file = "json"
    cart,           \* session -> Userdata.cart, defined for started sessions
    result,         \* session -> its last tool call: the tool and the returned fields
    now,            \* int(datetime.now().timestamp())
    calls,          \* session -> number of tool calls it has begun
    pc,             \* session -> position inside place_order (concurrent spec)
    new_order,      \* session -> local new_order of its place_order call
    all_orders      \* session -> local all_orders of its place_order call

vars == <<phase, catalog_exists, orders_file, orders, cart, result, now, calls,
          pc, new_order, all_orders>>

(***************************************************************************)
(* Bounds of the model.                                                    *)
(***************************************************************************)
MaxCalls == 3
MaxQty == 2
MaxClock == 1

Sessions == {"s1", "s2"}

\* Quantities a caller passes: the tool accepts any int.
Quantities == (-1) .. MaxQty

(***************************************************************************)
(* Strings.                                                                *)
(***************************************************************************)
LowerChar(c) == IF c \in 65 .. 90 THEN c + 32 ELSE c

Lower(s) == [i \in 1 .. Len(s) |-> LowerChar(s[i])]

IsSpace(c) == c \in {32, 9, 10, 11, 12, 13}

RECURSIVE LStrip(_)
LStrip(s) == IF s # << >> /\ IsSpace(Head(s)) THEN LStrip(Tail(s)) ELSE s

RECURSIVE RStrip(_)
RStrip(s) ==
    IF s # << >> /\ IsSpace(s[Len(s)]) THEN RStrip(SubSeq(s, 1, Len(s) - 1)) ELSE s

Strip(s) == RStrip(LStrip(s))

\* "Milk", "milk", "eggs", "sushi"
ItemNames ==
    { <<77, 105, 108, 107>>, <<109, 105, 108, 107>>,
      <<101, 103, 103, 115>>, <<115, 117, 115, 104, 105>> }

\* "pasta", " Pasta ", "sushi"
DishNames ==
    { <<112, 97, 115, 116, 97>>, <<32, 80, 97, 115, 116, 97, 32>>,
      <<115, 117, 115, 104, 105>> }

(***************************************************************************)
(* Catalog: the list load_catalog() returns, "Milk" at 2.499 and "Eggs"    *)
(* at 0.60; float(item["price"]) in mills.                                 *)
(***************************************************************************)
Catalog ==
    << [name |-> <<77, 105, 108, 107>>, price |-> 2499],
       [name |-> <<69, 103, 103, 115>>, price |-> 600] >>

NoItem == [name |-> << >>, price |-> 0]

\* variant: any hit yields the first catalog entry
FindItemFirst(name) ==
    IF \E i \in 1 .. Len(Catalog) : Lower(Catalog[i].name) = name
    THEN Catalog[1] ELSE NoItem

\* next((x for x in catalog if x["name"].lower() == name), None)
FindItem(name) ==
    LET hits == { i \in 1 .. Len(Catalog) : Lower(Catalog[i].name) = name }
    IN  IF hits = {} THEN NoItem
        ELSE Catalog[CHOOSE i \in hits : \A j \in hits : i <= j]

(***************************************************************************)
(* Cart operations, as functions of the cart.                              *)
(***************************************************************************)
CartItem(n, q, p) == [name |-> n, quantity |-> q, price |-> p]

\* indices of the cart lines whose lowercased name is `name`
Matches(c, name) == { i \in 1 .. Len(c) : Lower(c[i].name) = name }

FirstMatch(c, name) ==
    CHOOSE i \in Matches(c, name) : \A j \in Matches(c, name) : i <= j

\* variant: the cart line is looked up by the name as spelt, not lowercased
AddCartExact(c, item_name, quantity) ==
    LET item == FindItem(Lower(item_name))
        same == { i \in 1 .. Len(c) : c[i].name = item_name }
    IN  IF item = NoItem THEN c
        ELSE IF same # {}
        THEN [c EXCEPT ![CHOOSE i \in same : \A j \in same : i <= j].quantity =
                           @ + quantity]
        ELSE Append(c, CartItem(item.name, quantity, item.price))

\* variant: the matching line's quantity is overwritten, not incremented
AddCartOverwrite(c, item_name, quantity) ==
    LET name == Lower(item_name)
        item == FindItem(name)
    IN  IF item = NoItem THEN c
        ELSE IF Matches(c, name) # {}
        THEN [c EXCEPT ![FirstMatch(c, name)].quantity = quantity]
        ELSE Append(c, CartItem(item.name, quantity, item.price))

\* variant: a quantity that is not positive is rejected
AddCartValidated(c, item_name, quantity) ==
    LET name == Lower(item_name)
        item == FindItem(name)
    IN  IF item = NoItem \/ quantity <= 0 THEN c
        ELSE IF Matches(c, name) # {}
        THEN [c EXCEPT ![FirstMatch(c, name)].quantity = @ + quantity]
        ELSE Append(c, CartItem(item.name, quantity, item.price))

\* variant: no catalog check, an unknown item is appended at price 0
AddCartUnchecked(c, item_name, quantity) ==
    LET name == Lower(item_name)
        item == FindItem(name)
    IN  IF Matches(c, name) # {}
        THEN [c EXCEPT ![FirstMatch(c, name)].quantity = @ + quantity]
        ELSE IF item = NoItem THEN Append(c, CartItem(item_name, quantity, 0))
        ELSE Append(c, CartItem(item.name, quantity, item.price))

\* variant: the new line carries the name as the caller spelt it
AddCartCallerName(c, item_name, quantity) ==
    LET name == Lower(item_name)
        item == FindItem(name)
    IN  IF item = NoItem THEN c
        ELSE IF Matches(c, name) # {}
        THEN [c EXCEPT ![FirstMatch(c, name)].quantity = @ + quantity]
        ELSE Append(c, CartItem(item_name, quantity, item.price))

\* add_to_cart: the cart afterwards
AddCart(c, item_name, quantity) ==
    LET name == Lower(item_name)
        item == FindItem(name)
    IN  IF item = NoItem THEN c
        ELSE IF Matches(c, name) # {}
        THEN [c EXCEPT ![FirstMatch(c, name)].quantity = @ + quantity]
        ELSE Append(c, CartItem(item.name, quantity, item.price))

\* add_to_cart: the returned fields
AddReturn(c, item_name, quantity) ==
    LET name == Lower(item_name)
        item == FindItem(name)
    IN  IF item = NoItem THEN <<"NOT_FOUND">>
        ELSE IF Matches(c, name) # {}
        THEN LET ci == c[FirstMatch(c, name)]
             IN  <<"UPDATED", ci.name, ci.quantity + quantity>>
        ELSE <<"ADDED", item.name, quantity>>

\* variant: the comparison inverted
KeepLineInverted(x, name) == Lower(x.name) = name

\* remove_from_cart: x.name.lower() != name
KeepLine(x, name) == Lower(x.name) # name

\* variant: a match empties the whole cart
RemoveCartClear(c, item_name) ==
    IF \E i \in 1 .. Len(c) : Lower(c[i].name) = Lower(item_name) THEN << >> ELSE c

\* remove_from_cart: the cart afterwards
RemoveCart(c, item_name) ==
    LET name == Lower(item_name)
    IN  SelectSeq(c, LAMBDA x : KeepLine(x, name))

\* remove_from_cart: the returned fields
RemoveReturn(c, item_name) ==
    IF Len(RemoveCart(c, item_name)) < Len(c) THEN <<"REMOVED">> ELSE <<"NOT_FOUND">>

(***************************************************************************)
(* Orders.                                                                 *)
(***************************************************************************)
RECURSIVE SumLines(_)
SumLines(c) ==
    IF c = << >> THEN 0 ELSE Head(c).price * Head(c).quantity + SumLines(Tail(c))

\* round(x, 2) on mills: to the nearest multiple of 10, ties to even.
\* Prices are exact decimals here; the binary error of a float product is
\* not modelled, and the catalog prices chosen never produce a tie.
Round2(m) ==
    LET q == m \div 10
        r == m % 10
    IN  IF r < 5 THEN q * 10
        ELSE IF r > 5 THEN (q + 1) * 10
        ELSE IF q % 2 = 0 THEN q * 10 ELSE (q + 1) * 10

\* variant: the total left unrounded
OrderTotalUnrounded(c) == SumLines(c)

\* round(sum(x.price * x.quantity for x in cart), 2)
OrderTotal(c) == Round2(SumLines(c))

\* variant: the empty check never fires
IsEmptyNever(c) == FALSE

\* not ctx.userdata.cart
IsEmpty(c) == c = << >>

OrderId(t) == <<"ORD-", t>>

RECURSIVE SumPrices(_)
SumPrices(c) == IF c = << >> THEN 0 ELSE Head(c).price + SumPrices(Tail(c))

\* variant: the total sums the unit prices and forgets the quantities
MakeOrderNoQuantity(c, t) ==
    [order_id |-> OrderId(t), timestamp |-> t, items |-> c,
     total |-> Round2(SumPrices(c)), status |-> "received"]

\* Order(order_id=..., timestamp=..., items=cart.copy(), total=round(total, 2))
MakeOrder(c, t) ==
    [order_id |-> OrderId(t), timestamp |-> t, items |-> c,
     total |-> OrderTotal(c), status |-> "received"]

NoOrder == MakeOrder(<< >>, 0)

\* variant: the file is rewritten with the new order alone
SavedOrdersOverwrite(loaded, order) == <<order>>

\* variant: the record is appended to the file as it is at the write
SavedOrdersReread(loaded, order) == Append(orders, order)

\* all_orders.append(asdict(new_order)); save_orders(all_orders)
SavedOrders(loaded, order) == Append(loaded, order)

PlacedReturn(order) == <<"PLACED", order.order_id, order.total>>

(***************************************************************************)
(* Recipes.                                                                *)
(***************************************************************************)
\* RECIPES: dish -> ingredients
RecipeDishes ==
    { <<112, 101, 97, 110, 117, 116, 32, 98, 117, 116, 116, 101, 114, 32,
        115, 97, 110, 100, 119, 105, 99, 104>>,
      <<112, 97, 115, 116, 97>>,
      <<116, 101, 97>> }

Recipe(dish) ==
    IF dish = <<112, 97, 115, 116, 97>>
    THEN << <<112, 97, 115, 116, 97>>,
            <<112, 97, 115, 116, 97, 32, 115, 97, 117, 99, 101>> >>
    ELSE IF dish = <<116, 101, 97>>
    THEN << <<116, 101, 97, 32, 112, 111, 119, 100, 101, 114>>,
            <<109, 105, 108, 107>>, <<115, 117, 103, 97, 114>> >>
    ELSE << <<98, 114, 101, 97, 100>>,
            <<112, 101, 97, 110, 117, 116, 32, 98, 117, 116, 116, 101, 114>> >>

\* variant: the dish name is lowercased but not stripped
IngredientsReturnNoStrip(dish_name) ==
    LET dish == Lower(dish_name)
    IN  IF dish \notin RecipeDishes THEN <<"NO_RECIPE">>
        ELSE <<"ING">> \o Recipe(dish)

\* ingredients_for: the returned fields
IngredientsReturn(dish_name) ==
    LET dish == Strip(Lower(dish_name))
    IN  IF dish \notin RecipeDishes THEN <<"NO_RECIPE">>
        ELSE <<"ING">> \o Recipe(dish)


(***************************************************************************)
(* Initial states.                                                         *)
(***************************************************************************)
\* a ledger left by an earlier run: one order of one Eggs, placed a second
\* before this run's clock starts
PriorOrders == << MakeOrder(<<CartItem(<<69, 103, 103, 115>>, 1, 600)>>, -1) >>

InitLocals ==
    /\ phase = "boot"
    /\ cart = << >>
    /\ result = << >>
    /\ now = 0
    /\ calls = << >>
    /\ pc = << >>
    /\ new_order = << >>
    /\ all_orders = << >>

\* the two files as section 6 of the specification requires them
Init ==
    /\ InitLocals
    /\ catalog_exists = TRUE
    /\ \/ orders_file = "missing" /\ orders = << >>
       \/ orders_file = "json" /\ orders = PriorOrders

\* any state of the two files
InitAnyFiles ==
    /\ InitLocals
    /\ catalog_exists \in BOOLEAN
    /\ \/ orders_file \in {"missing", "malformed"} /\ orders = << >>
       \/ orders_file = "json" /\ orders = PriorOrders

(***************************************************************************)
(* Process start-up and session start.                                     *)
(***************************************************************************)
\* what a session's tool call returned; <<"RAISED">> when it raised instead
Returned(tool, fields) == [tool |-> tool, fields |-> fields]

Return(s, tool, fields) == [result EXCEPT ![s] = Returned(tool, fields)]

\* variant: start-up without the check of catalog.json
StartupNoCatalogCheck ==
    /\ phase = "boot"
    /\ phase' = "running"
    /\ IF orders_file = "missing"
       THEN orders_file' = "json" /\ orders' = << >>
       ELSE UNCHANGED <<orders_file, orders>>
    /\ UNCHANGED <<catalog_exists, cart, result, now, calls, pc, new_order, all_orders>>

\* module level, lines 38-46
Startup ==
    /\ phase = "boot"
    /\ IF ~catalog_exists
       THEN /\ phase' = "aborted"
            /\ UNCHANGED <<orders_file, orders>>
       ELSE /\ phase' = "running"
            /\ IF orders_file = "missing"
               THEN orders_file' = "json" /\ orders' = << >>
               ELSE UNCHANGED <<orders_file, orders>>
    /\ UNCHANGED <<catalog_exists, cart, result, now, calls, pc, new_order, all_orders>>

\* entrypoint: userdata = Userdata()
Entrypoint(s) ==
    /\ phase = "running"
    /\ s \notin DOMAIN cart
    /\ cart' = cart @@ (s :> << >>)
    /\ result' = result @@ (s :> Returned("", <<"NONE">>))
    /\ pc' = pc @@ (s :> "idle")
    /\ new_order' = new_order @@ (s :> NoOrder)
    /\ all_orders' = all_orders @@ (s :> << >>)
    /\ calls' = calls @@ (s :> 0)
    /\ UNCHANGED <<phase, catalog_exists, orders_file, orders, now>>

\* the wall clock advances
Tick ==
    /\ now < MaxClock
    /\ now' = now + 1
    /\ UNCHANGED <<phase, catalog_exists, orders_file, orders, cart, result, calls,
                   pc, new_order, all_orders>>

\* a session may begin a tool call
CanCall(s) ==
    /\ phase = "running"
    /\ s \in DOMAIN cart
    /\ pc[s] = "idle"
    /\ calls[s] < MaxCalls

(***************************************************************************)
(* Tools, each call one step: a tool has no await, so within one event     *)
(* loop it runs from its first line to its return.                         *)
(***************************************************************************)
\* variant: one cart list shared by all sessions (a mutable default)
AddToCartShared(s, item_name, quantity) ==
    /\ CanCall(s)
    /\ calls' = [calls EXCEPT ![s] = @ + 1]
    /\ cart' = [t \in DOMAIN cart |-> AddCart(cart[s], item_name, quantity)]
    /\ result' = Return(s, "add_to_cart", AddReturn(cart[s], item_name, quantity))
    /\ UNCHANGED <<phase, catalog_exists, orders_file, orders, now, pc, new_order,
                   all_orders>>

AddToCart(s, item_name, quantity) ==
    /\ CanCall(s)
    /\ calls' = [calls EXCEPT ![s] = @ + 1]
    /\ IF catalog_exists
       THEN /\ cart' = [cart EXCEPT ![s] = AddCart(cart[s], item_name, quantity)]
            /\ result' =
                   Return(s, "add_to_cart", AddReturn(cart[s], item_name, quantity))
       ELSE \* open() raises in load_catalog
            /\ result' = Return(s, "add_to_cart", <<"RAISED">>)
            /\ UNCHANGED cart
    /\ UNCHANGED <<phase, catalog_exists, orders_file, orders, now, pc, new_order,
                   all_orders>>

RemoveFromCart(s, item_name) ==
    /\ CanCall(s)
    /\ calls' = [calls EXCEPT ![s] = @ + 1]
    /\ cart' = [cart EXCEPT ![s] = RemoveCart(cart[s], item_name)]
    /\ result' = Return(s, "remove_from_cart", RemoveReturn(cart[s], item_name))
    /\ UNCHANGED <<phase, catalog_exists, orders_file, orders, now, pc, new_order,
                   all_orders>>

IngredientsFor(s, dish_name) ==
    /\ CanCall(s)
    /\ calls' = [calls EXCEPT ![s] = @ + 1]
    /\ result' = Return(s, "ingredients_for", IngredientsReturn(dish_name))
    /\ UNCHANGED <<phase, catalog_exists, orders_file, orders, cart, now, pc,
                   new_order, all_orders>>

\* variant: the cart is cleared before the ledger is read and written
PlaceOrderClearFirst(s) ==
    /\ CanCall(s)
    /\ calls' = [calls EXCEPT ![s] = @ + 1]
    /\ IF IsEmpty(cart[s])
       THEN /\ result' = Return(s, "place_order", <<"EMPTY">>)
            /\ UNCHANGED <<orders, cart>>
       ELSE LET order == MakeOrder(cart[s], now)
            IN  /\ cart' = [cart EXCEPT ![s] = << >>]
                /\ IF orders_file = "json"
                   THEN /\ orders' = SavedOrders(orders, order)
                        /\ result' = Return(s, "place_order", PlacedReturn(order))
                   ELSE /\ result' = Return(s, "place_order", <<"RAISED">>)
                        /\ UNCHANGED orders
    /\ UNCHANGED <<phase, catalog_exists, orders_file, now, pc, new_order, all_orders>>

PlaceOrder(s) ==
    /\ CanCall(s)
    /\ calls' = [calls EXCEPT ![s] = @ + 1]
    /\ IF IsEmpty(cart[s])
       THEN /\ result' = Return(s, "place_order", <<"EMPTY">>)
            /\ UNCHANGED <<orders, cart>>
       ELSE LET order == MakeOrder(cart[s], now)
            IN  IF orders_file = "json"
                THEN /\ orders' = SavedOrders(orders, order)
                     /\ cart' = [cart EXCEPT ![s] = << >>]
                     /\ result' = Return(s, "place_order", PlacedReturn(order))
                ELSE \* json.load raises in load_orders: the call returns nothing
                     /\ result' = Return(s, "place_order", <<"RAISED">>)
                     /\ UNCHANGED <<orders, cart>>
    /\ UNCHANGED <<phase, catalog_exists, orders_file, now, pc, new_order, all_orders>>

(***************************************************************************)
(* One session served by the worker.                                       *)
(***************************************************************************)
Next ==
    \/ Startup
    \/ Tick
    \/ Entrypoint("s1")
    \/ \E n \in ItemNames, q \in Quantities : AddToCart("s1", n, q)
    \/ \E n \in ItemNames : RemoveFromCart("s1", n)
    \/ \E d \in DishNames : IngredientsFor("s1", d)
    \/ PlaceOrder("s1")

Spec == Init /\ [][Next]_vars

\* the same session, whatever the state of catalog.json and orders.json
SpecAnyFiles == InitAnyFiles /\ [][Next]_vars

(***************************************************************************)
(* Failing writes.  save_orders raises either in open(), the file left as  *)
(* it was, or in json.dump after open() has truncated the file, which is   *)
(* left without a complete JSON list.  The lines of place_order that       *)
(* follow line 163 do not run.                                             *)
(***************************************************************************)
PlaceOrderSaveFails(s) ==
    /\ CanCall(s)
    /\ ~IsEmpty(cart[s])
    /\ orders_file = "json"
    /\ calls' = [calls EXCEPT ![s] = @ + 1]
    /\ \/ UNCHANGED <<orders_file, orders>>
       \/ orders_file' = "malformed" /\ orders' = << >>
    /\ result' = Return(s, "place_order", <<"RAISED">>)
    /\ UNCHANGED <<phase, catalog_exists, cart, now, pc, new_order, all_orders>>

NextFaults ==
    \/ Next
    \/ PlaceOrderSaveFails("s1")

SpecFaults == InitAnyFiles /\ [][NextFaults]_vars

(***************************************************************************)
(* Sessions in separate job processes of the worker: place_order of one    *)
(* session runs in steps between which another session's steps may fall.   *)
(***************************************************************************)
\* lines 149-159
PlaceBegin(s) ==
    /\ CanCall(s)
    /\ calls' = [calls EXCEPT ![s] = @ + 1]
    /\ IF IsEmpty(cart[s])
       THEN /\ result' = Return(s, "place_order", <<"EMPTY">>)
            /\ UNCHANGED <<pc, new_order>>
       ELSE /\ new_order' = [new_order EXCEPT ![s] = MakeOrder(cart[s], now)]
            /\ pc' = [pc EXCEPT ![s] = "load"]
            /\ UNCHANGED result
    /\ UNCHANGED <<phase, catalog_exists, orders_file, orders, cart, now, all_orders>>

\* line 161
PlaceLoad(s) ==
    /\ s \in DOMAIN pc
    /\ pc[s] = "load"
    /\ IF orders_file = "json"
       THEN /\ all_orders' = [all_orders EXCEPT ![s] = orders]
            /\ pc' = [pc EXCEPT ![s] = "save"]
            /\ UNCHANGED result
       ELSE /\ result' = Return(s, "place_order", <<"RAISED">>)
            /\ pc' = [pc EXCEPT ![s] = "idle"]
            /\ UNCHANGED all_orders
    /\ UNCHANGED <<phase, catalog_exists, orders_file, orders, cart, now, calls,
                   new_order>>

\* lines 162-167
PlaceSave(s) ==
    /\ s \in DOMAIN pc
    /\ pc[s] = "save"
    /\ orders' = SavedOrders(all_orders[s], new_order[s])
    /\ cart' = [cart EXCEPT ![s] = << >>]
    /\ result' = Return(s, "place_order", PlacedReturn(new_order[s]))
    /\ pc' = [pc EXCEPT ![s] = "idle"]
    /\ UNCHANGED <<phase, catalog_exists, orders_file, now, calls, new_order,
                   all_orders>>

\* "Milk", "eggs"
WorkerItemNames == { <<77, 105, 108, 107>>, <<101, 103, 103, 115>> }

NextWorkers ==
    \/ Startup
    \/ Tick
    \/ \E s \in Sessions : Entrypoint(s)
    \/ \E s \in Sessions, n \in WorkerItemNames : AddToCart(s, n, 1)
    \/ \E s \in Sessions : PlaceBegin(s)
    \/ \E s \in Sessions : PlaceLoad(s)
    \/ \E s \in Sessions : PlaceSave(s)

SpecWorkers == Init /\ [][NextWorkers]_vars

(***************************************************************************)
(* Two sessions served in one event loop: their tool calls alternate, each *)
(* call one step.                                                          *)
(***************************************************************************)
NextSessions ==
    \/ Startup
    \/ Tick
    \/ \E s \in Sessions : Entrypoint(s)
    \/ \E s \in Sessions, n \in WorkerItemNames : AddToCart(s, n, 1)
    \/ \E s \in Sessions, n \in WorkerItemNames : RemoveFromCart(s, n)
    \/ \E s \in Sessions : PlaceOrder(s)

SpecSessions == Init /\ [][NextSessions]_vars

(***************************************************************************)
(* Properties.                                                             *)
(***************************************************************************)
Milk == <<77, 105, 108, 107>>

Eggs == <<69, 103, 103, 115>>

LastOrder == orders[Len(orders)]

\* C1: place_order on a non-empty cart returns PLACED, lengthens the ledger
\* by exactly one record, whose total is the rounded sum of price x quantity
\* over the cart as it was at the call and whose order_id is the one in the
\* returned string, and leaves the session's cart empty.
C1_PlaceOrderAppends ==
    [][\A s \in Sessions :
          (s \in DOMAIN cart /\ cart[s] # << >> /\ PlaceOrder(s)) =>
              /\ result'[s].fields[1] = "PLACED"
              /\ Len(orders') = Len(orders) + 1
              /\ SubSeq(orders', 1, Len(orders)) = orders
              /\ orders'[Len(orders')].items = cart[s]
              /\ orders'[Len(orders')].total = Round2(SumLines(cart[s]))
              /\ result'[s].fields[2] = orders'[Len(orders')].order_id
              /\ cart'[s] = << >>]_vars

\* a cart of two lines, Milk x 2 and Eggs x 1, has just been placed
C1_Witness ==
    /\ "s1" \in DOMAIN result
    /\ orders # << >>
    /\ result["s1"] = Returned("place_order", <<"PLACED", LastOrder.order_id, 5600>>)
    /\ cart["s1"] = << >>
    /\ LastOrder.items = <<CartItem(Milk, 2, 2499), CartItem(Eggs, 1, 600)>>

\* C2: no two lines of a session's cart have names equal after lowercasing.
C2_CartNamesUnique ==
    \A s \in DOMAIN cart :
        \A i, j \in 1 .. Len(cart[s]) :
            i # j => Lower(cart[s][i].name) # Lower(cart[s][j].name)

\* "milk" was added to a two-line cart that already held "Milk"
C2_Witness ==
    /\ "s1" \in DOMAIN cart
    /\ Len(cart["s1"]) = 2
    /\ result["s1"].tool = "add_to_cart"
    /\ result["s1"].fields[1] = "UPDATED"

\* C3: every ledger record's total is the sum of price x quantity over its
\* own items, rounded to 2 decimal places.
C3_OrderTotals ==
    \A i \in 1 .. Len(orders) : orders[i].total = Round2(SumLines(orders[i].items))

\* the ledger holds a record whose rounding changed the sum (2.499 -> 2.50)
C3_Witness ==
    \E i \in 1 .. Len(orders) :
        /\ orders[i].items = <<CartItem(Milk, 1, 2499)>>
        /\ orders[i].total = 2500

\* C4: two place_order calls of different sessions that both read the same
\* ledger both return PLACED, and the ledger afterwards is that ledger plus
\* one record only, the later writer's: the other record is lost.
C4_LostUpdate ==
    \A s, t \in DOMAIN pc :
        ( /\ s # t
          /\ pc[s] = "idle" /\ pc[t] = "idle"
          /\ result[s].fields[1] = "PLACED" /\ result[t].fields[1] = "PLACED"
          /\ all_orders[s] = all_orders[t] ) =>
            /\ Len(orders) = Len(all_orders[s]) + 1
            /\ LastOrder \in {new_order[s], new_order[t]}

\* both sessions have returned PLACED and the order of one is not in the ledger
C4_Witness ==
    /\ DOMAIN pc = Sessions
    /\ \A s \in Sessions : pc[s] = "idle" /\ result[s].fields[1] = "PLACED"
    /\ \A s \in Sessions : result[s].fields[2] = new_order[s].order_id
    /\ \E s \in Sessions : \A i \in 1 .. Len(orders) : orders[i] # new_order[s]

\* C5: every step leaves the ledger as it was or appends to it; the records
\* already stored stay as they are, and the only step that lengthens the
\* ledger is a place_order that returns PLACED, by exactly one record.
C5_LedgerAppendOnly ==
    [][/\ Len(orders') >= Len(orders)
       /\ SubSeq(orders', 1, Len(orders)) = orders
       /\ orders' # orders =>
              /\ Len(orders') = Len(orders) + 1
              /\ \E s \in Sessions :
                     PlaceOrder(s) /\ result'[s].fields[1] = "PLACED"]_vars

\* Milk x 1 was placed after the earlier run's order; the cart has since
\* got a Milk line of another quantity, and both records are as stored
C5_Witness ==
    /\ "s1" \in DOMAIN cart
    /\ orders = Append(PriorOrders, MakeOrder(<<CartItem(Milk, 1, 2499)>>, 0))
    /\ cart["s1"] = <<CartItem(Milk, 2, 2499)>>

\* C6: add_to_cart of a catalog item right after the add_to_cart that
\* created its line (quantity q1), under a name equal to it up to letter
\* case and with quantity q2, leaves one line for the item, with quantity
\* q1 + q2 and the name and price it had, and returns UPDATED with q1 + q2.
C6_AddTwice ==
    [][\A s \in Sessions :
          ( /\ s \in DOMAIN result
            /\ calls'[s] = calls[s] + 1
            /\ result[s].tool = "add_to_cart"
            /\ result[s].fields[1] = "ADDED" ) =>
              \A n \in ItemNames, q2 \in Quantities :
                  (Lower(result[s].fields[2]) = Lower(n) /\ AddToCart(s, n, q2)) =>
                      /\ Matches(cart[s], Lower(n)) # {}
                      /\ Cardinality(Matches(cart'[s], Lower(n))) = 1
                      /\ Len(cart'[s]) = Len(cart[s])
                      /\ LET q1 == result[s].fields[3]
                             old == cart[s][FirstMatch(cart[s], Lower(n))]
                             new == cart'[s][FirstMatch(cart'[s], Lower(n))]
                         IN  /\ old.quantity = q1
                             /\ new = CartItem(old.name, q1 + q2, old.price)
                             /\ result'[s].fields =
                                    <<"UPDATED", old.name, q1 + q2>>]_vars

\* two calls have made the cart one line of 3 Milk
C6_Witness ==
    /\ "s1" \in DOMAIN cart
    /\ calls["s1"] = 2
    /\ cart["s1"] = <<CartItem(Milk, 3, 2499)>>
    /\ result["s1"] = Returned("add_to_cart", <<"UPDATED", Milk, 3>>)

\* C7: add_to_cart of a catalog item with a quantity q > 0 on an empty cart
\* returns ADDED and leaves exactly one line, of quantity q and of the
\* item's catalog price.
C7_AddToEmptyCart ==
    [][\A s \in Sessions :
          (s \in DOMAIN cart /\ calls'[s] = calls[s] + 1 /\ cart[s] = << >>) =>
              \A i \in 1 .. Len(Catalog), n \in ItemNames, q \in 1 .. MaxQty :
                  (Lower(n) = Lower(Catalog[i].name) /\ AddToCart(s, n, q)) =>
                      /\ result'[s].fields[1] = "ADDED"
                      /\ Len(cart'[s]) = 1
                      /\ cart'[s][1].quantity = q
                      /\ cart'[s][1].price = Catalog[i].price]_vars

\* the first call added 2 Eggs to the empty cart
C7_Witness ==
    /\ "s1" \in DOMAIN cart
    /\ calls["s1"] = 1
    /\ cart["s1"] = <<CartItem(Eggs, 2, 600)>>
    /\ result["s1"] = Returned("add_to_cart", <<"ADDED", Eggs, 2>>)

\* C8: place_order on an empty cart returns EMPTY and changes neither the
\* ledger nor the cart.
C8_EmptyCart ==
    [][\A s \in Sessions :
          (s \in DOMAIN cart /\ cart[s] = << >> /\ PlaceOrder(s)) =>
              /\ result'[s].fields = <<"EMPTY">>
              /\ orders' = orders
              /\ orders_file' = orders_file
              /\ cart' = cart]_vars

\* three calls: Milk added, the order placed, place_order again
C8_Witness ==
    /\ "s1" \in DOMAIN cart
    /\ calls["s1"] = 3
    /\ result["s1"] = Returned("place_order", <<"EMPTY">>)
    /\ orders # << >>
    /\ LastOrder.items = <<CartItem(Milk, 1, 2499)>>

\* C9: remove_from_cart with a name that no cart line matches after
\* lowercasing returns NOT_FOUND and leaves the cart as it was.
C9_RemoveAbsent ==
    [][\A s \in Sessions :
          (s \in DOMAIN cart /\ calls'[s] = calls[s] + 1) =>
              \A n \in ItemNames :
                  (Matches(cart[s], Lower(n)) = {} /\ RemoveFromCart(s, n)) =>
                      /\ result'[s].fields = <<"NOT_FOUND">>
                      /\ cart'[s] = cart[s]]_vars

\* remove_from_cart returned NOT_FOUND on a cart of one line
C9_Witness ==
    /\ "s1" \in DOMAIN cart
    /\ result["s1"] = Returned("remove_from_cart", <<"NOT_FOUND">>)
    /\ cart["s1"] = <<CartItem(Milk, 2, 2499)>>

\* C10 as stated: a missing catalog and a malformed ledger both abort the
\* start-up, so that no tool call ever fails on either.
C10_NoToolCallFails ==
    \A s \in DOMAIN result : result[s].fields[1] # "RAISED"

\* C10 amended: a catalog missing at start-up aborts it before any session
\* starts; a malformed ledger does not: the process runs, and the only tool
\* call that fails is a place_order on a non-empty cart, at the malformed
\* ledger.
C10_StartupChecksCatalogOnly ==
    /\ ~catalog_exists => phase # "running" /\ DOMAIN cart = {}
    /\ phase = "aborted" => ~catalog_exists
    /\ \A s \in DOMAIN result :
          result[s].fields[1] = "RAISED" =>
              /\ result[s].tool = "place_order"
              /\ orders_file = "malformed"
              /\ cart[s] # << >>

\* the process started on a malformed ledger and place_order has raised
C10_Witness ==
    /\ phase = "running"
    /\ orders_file = "malformed"
    /\ "s1" \in DOMAIN result
    /\ result["s1"] = Returned("place_order", <<"RAISED">>)

\* the cart is one that a tool call of the session leaves, given its own
\* cart alone
OwnCart(c, after) ==
    \/ after = << >>
    \/ \E n \in WorkerItemNames : after = AddCart(c, n, 1)
    \/ \E n \in WorkerItemNames : after = RemoveCart(c, n)

\* C11: a session starts with an empty cart; a session's cart changes only
\* in a step that is a tool call of that session, and then to a cart that
\* depends on its own cart alone, whatever the other session has done.
C11_CartsAreSeparate ==
    [][/\ \A s \in (DOMAIN cart') \ (DOMAIN cart) : cart'[s] = << >>
       /\ \A s \in DOMAIN cart :
             cart'[s] # cart[s] =>
                 /\ calls'[s] = calls[s] + 1
                 /\ \A t \in (DOMAIN cart) \ {s} :
                        calls'[t] = calls[t] /\ cart'[t] = cart[t]
                 /\ OwnCart(cart[s], cart'[s])]_vars

\* both sessions have made calls and hold different carts
C11_Witness ==
    /\ DOMAIN cart = Sessions
    /\ cart["s1"] = <<CartItem(Milk, 1, 2499)>>
    /\ cart["s2"] = <<CartItem(Eggs, 1, 600), CartItem(Milk, 2, 2499)>>

\* C12: add_to_cart treats every quantity alike, positive or not: for a
\* catalog item it appends a line of that quantity and returns ADDED, or
\* adds the quantity to the matching line and returns UPDATED, and keeps the
\* line whatever its quantity becomes; place_order places a cart holding
\* such a line like any other.
C12_NoQuantityValidation ==
    [][\A s \in Sessions :
          (s \in DOMAIN cart /\ calls'[s] = calls[s] + 1) =>
              /\ \A i \in 1 .. Len(Catalog), n \in ItemNames, q \in Quantities :
                     (Lower(n) = Lower(Catalog[i].name) /\ AddToCart(s, n, q)) =>
                         IF Matches(cart[s], Lower(n)) = {}
                         THEN /\ cart'[s] =
                                     Append(cart[s],
                                            CartItem(Catalog[i].name, q, Catalog[i].price))
                              /\ result'[s].fields = <<"ADDED", Catalog[i].name, q>>
                         ELSE LET k == FirstMatch(cart[s], Lower(n))
                              IN  /\ cart'[s] =
                                        [cart[s] EXCEPT ![k].quantity = @ + q]
                                  /\ result'[s].fields =
                                        <<"UPDATED", cart[s][k].name,
                                          cart[s][k].quantity + q>>
              /\ ( /\ \E k \in 1 .. Len(cart[s]) : cart[s][k].quantity <= 0
                   /\ PlaceOrder(s) ) =>
                     /\ result'[s].fields[1] = "PLACED"
                     /\ orders'[Len(orders')].items = cart[s]]_vars

\* a cart of one line, Milk x -1, has been placed, for a total of -2.50
C12_Witness ==
    /\ "s1" \in DOMAIN result
    /\ orders # << >>
    /\ LastOrder.items = <<CartItem(Milk, -1, 2499)>>
    /\ result["s1"] = Returned("place_order", <<"PLACED", LastOrder.order_id, -2500>>)

Pasta == <<112, 97, 115, 116, 97>>

PastaSauce == <<112, 97, 115, 116, 97, 32, 115, 97, 117, 99, 101>>

\* what ingredients_for is to return for "pasta", " Pasta " and "sushi"
ExpectedIngredients(d) ==
    IF d \in {Pasta, <<32, 80, 97, 115, 116, 97, 32>>}
    THEN <<"ING", Pasta, PastaSauce>>
    ELSE <<"NO_RECIPE">>

\* C13: ingredients_for leaves every cart and the ledger as they are and
\* returns, in every state, pasta then pasta sauce for "pasta" whatever
\* its letter case and surrounding blanks, and NO_RECIPE for "sushi".
C13_IngredientsFor ==
    [][\A s \in Sessions :
          (s \in DOMAIN cart /\ calls'[s] = calls[s] + 1) =>
              \A d \in DishNames :
                  IngredientsFor(s, d) =>
                      /\ cart' = cart
                      /\ orders' = orders /\ orders_file' = orders_file
                      /\ result'[s].fields = ExpectedIngredients(d)]_vars

\* ingredients_for answered for pasta while the cart held a line
C13_Witness ==
    /\ "s1" \in DOMAIN result
    /\ result["s1"] = Returned("ingredients_for", <<"ING", Pasta, PastaSauce>>)
    /\ cart["s1"] = <<CartItem(Milk, 1, 2499)>>

\* the sequence without its k-th element
Without(c, k) == SubSeq(c, 1, k - 1) \o SubSeq(c, k + 1, Len(c))

\* C14: remove_from_cart with a name that a cart line matches after
\* lowercasing returns REMOVED; no line matches the name afterwards, and
\* the cart is the old one less that one line, the other lines as they
\* were and in their order.
C14_RemovePresent ==
    [][\A s \in Sessions :
          (s \in DOMAIN cart /\ calls'[s] = calls[s] + 1) =>
              \A n \in ItemNames :
                  (Matches(cart[s], Lower(n)) # {} /\ RemoveFromCart(s, n)) =>
                      /\ result'[s].fields = <<"REMOVED">>
                      /\ Matches(cart'[s], Lower(n)) = {}
                      /\ Len(cart'[s]) = Len(cart[s]) - 1
                      /\ cart'[s] = Without(cart[s], FirstMatch(cart[s], Lower(n)))]_vars

\* the third call removed Milk from a cart of Milk and Eggs
C14_Witness ==
    /\ "s1" \in DOMAIN result
    /\ calls["s1"] = 3
    /\ result["s1"] = Returned("remove_from_cart", <<"REMOVED">>)
    /\ cart["s1"] = <<CartItem(Eggs, 2, 600)>>

\* C15: add_to_cart with a name that no catalog item matches after
\* lowercasing returns NOT_FOUND and leaves the carts and the ledger as
\* they are, for every quantity and every cart.
C15_AddUnknown ==
    [][\A s \in Sessions :
          (s \in DOMAIN cart /\ calls'[s] = calls[s] + 1) =>
              \A n \in ItemNames, q \in Quantities :
                  ( /\ \A i \in 1 .. Len(Catalog) : Lower(Catalog[i].name) # Lower(n)
                    /\ AddToCart(s, n, q) ) =>
                      /\ result'[s].fields = <<"NOT_FOUND">>
                      /\ cart' = cart
                      /\ orders' = orders /\ orders_file' = orders_file]_vars

\* the third call, add_to_cart, found no item; the cart holds two lines
C15_Witness ==
    /\ "s1" \in DOMAIN result
    /\ calls["s1"] = 3
    /\ result["s1"] = Returned("add_to_cart", <<"NOT_FOUND">>)
    /\ Len(cart["s1"]) = 2

\* the line is a catalog item, under the catalog's name and price
InCatalog(x) ==
    \E i \in 1 .. Len(Catalog) :
        x.name = Catalog[i].name /\ x.price = Catalog[i].price

\* C16: every cart line and every item of every ledger record carries the
\* name of a catalog item as the catalog spells it, and that item's price.
C16_CatalogItemsOnly ==
    /\ \A s \in DOMAIN cart : \A k \in 1 .. Len(cart[s]) : InCatalog(cart[s][k])
    /\ \A i \in 1 .. Len(orders) :
          \A k \in 1 .. Len(orders[i].items) : InCatalog(orders[i].items[k])

\* "eggs", the one spelling callers use, is in the cart as Eggs, after an
\* order of Milk
C16_Witness ==
    /\ "s1" \in DOMAIN cart
    /\ cart["s1"] = <<CartItem(Eggs, 1, 600)>>
    /\ orders # << >>
    /\ LastOrder.items = <<CartItem(Milk, 1, 2499)>>

\* C17: a place_order on a non-empty cart whose read or write of the
\* ledger fails returns nothing (it raises) and leaves the cart with all
\* its lines; the cart is emptied only by a call that returns PLACED, and
\* then the ledger holds the order.
C17_ClearAfterWrite ==
    [][\A s \in Sessions :
          ( /\ s \in DOMAIN cart
            /\ calls'[s] = calls[s] + 1
            /\ result'[s].tool = "place_order"
            /\ cart[s] # << >> ) =>
              /\ result'[s].fields[1] \in {"PLACED", "RAISED"}
              /\ orders_file # "json" => result'[s].fields[1] = "RAISED"
              /\ PlaceOrderSaveFails(s) => result'[s].fields[1] = "RAISED"
              /\ result'[s].fields[1] = "RAISED" => cart'[s] = cart[s]
              /\ cart'[s] = << >> =>
                     /\ result'[s].fields[1] = "PLACED"
                     /\ orders_file' = "json"
                     /\ Len(orders') = Len(orders) + 1
                     /\ orders'[Len(orders')].items = cart[s]]_vars

\* the ledger was readable, the write failed in open(), and the cart
\* still holds its two lines
C17_Witness ==
    /\ "s1" \in DOMAIN result
    /\ orders_file = "json"
    /\ result["s1"] = Returned("place_order", <<"RAISED">>)
    /\ cart["s1"] = <<CartItem(Milk, 1, 2499), CartItem(Eggs, 1, 600)>>

\* C18: no two records of the ledger share an order_id.
C18_UniqueOrderIds ==
    \A i, j \in 1 .. Len(orders) :
        i # j => orders[i].order_id # orders[j].order_id

====
